---- MODULE Spec2Model ----
(***************************************************************************)
(* A model of @lykmapipo/logger (src/es/index.js): the process-wide logger *)
(* handle, the log normalizer, the eight level-gated emitters and the      *)
(* environment they read.                                                  *)
(*                                                                         *)
(* Values.  A log record is a function from field names to values.  Every  *)
(* scalar value is a string, `timestamp` is a pair <<representation, t>>   *)
(* (a Date object or an ISO string of clock reading t) and `metadata` and  *)
(* `user` hold nested records.  An input of normalizeLog is a tagged value *)
(* [kind, val]: kind "text", "meta" (a plain object), "error" (an Error)   *)
(* or "other" (a number, null, an array...).                               *)
(***************************************************************************)
EXTENDS Integers, Sequences, FiniteSets, TLC

VARIABLES
    logger,   \* `let logger` (src/es/index.js:8): NoLogger or the handle
    env,      \* process.env: a function from the names that are set to their values
    now,      \* the millisecond clock read by Date.now() and new Date()
    built,    \* how many times createWinstonLogger has been invoked
    writes,   \* the calls the backends have received: <<[obj, op, rec], ...>>
    last,     \* the call in progress: its inputs, what it saw and what it returns
    hist      \* what the callers remember of the handles: the one createLogger
              \* first returned since the latest dispose, the one the latest
              \* dispose cleared, whether an emitter ran since, how often
              \* createWinstonLogger was invoked and returned since, and
              \* how many backend calls had been made at that dispose

vars == <<logger, env, now, built, writes, last, hist>>

----------------------------------------------------------------------------
(* Bounds of the model *)

MaxParams == 2

MaxClock == 2

MaxBuilt == 2

MaxWrites == 1

MaxLog == 2

----------------------------------------------------------------------------
(* lodash / @lykmapipo/common helpers, as the code uses them *)

EmptyObject == [k \in {} |-> ""]

Restrict(o, keys) == [k \in (DOMAIN o) \cap keys |-> o[k]]

\* fields whose values are nested plain objects
ObjectFields == {"metadata", "user"}

\* fields whose value is not a string (never compared with "")
NonStringFields == ObjectFields \cup {"timestamp"}

\* compact(object): a copy without the fields whose value is falsy ('' here;
\* objects and dates are truthy)
compact(o) ==
    Restrict(o, {k \in DOMAIN o : k \in NonStringFields \/ o[k] # ""})

\* one level of lodash merge: own fields of the source are assigned over the target
Assign(a, b) ==
    [k \in (DOMAIN a) \cup (DOMAIN b) |-> IF k \in DOMAIN b THEN b[k] ELSE a[k]]

\* lodash merge(target, source): source fields win, plain objects merge recursively
merge(a, b) ==
    [k \in (DOMAIN a) \cup (DOMAIN b) |->
        IF k \notin DOMAIN b THEN a[k]
        ELSE IF k \in DOMAIN a /\ k \in ObjectFields THEN Assign(a[k], b[k])
        ELSE b[k]]

\* mergeObjects(a, b): merge({}, compact(a), compact(b))
mergeObjects(a, b) == merge(merge(EmptyObject, compact(a)), compact(b))

\* mutant: the sources are merged in the opposite order
mergeObjects3LogLast(a, b, c) == merge(merge(merge(EmptyObject, compact(c)), compact(b)), compact(a))

\* mergeObjects(a, b, c)
mergeObjects3(a, b, c) == merge(mergeObjects(a, b), compact(c))

\* mutant: nothing is removed
omitNothing(o, names) == o

\* omit(object, ...names): a copy without the named top-level fields
\* mutant: the names are removed inside nested objects as well
omitDeep(o, names) ==
    [k \in (DOMAIN o) \ names |->
        IF k \in ObjectFields THEN Restrict(o[k], (DOMAIN o[k]) \ names)
        ELSE o[k]]

omit(o, names) == Restrict(o, (DOMAIN o) \ names)

\* the inputs of normalizeLog: a string, a plain object, an Error
Text(s) == [kind |-> "text", val |-> s]

Meta(o) == [kind |-> "meta", val |-> o]

Error(e) == [kind |-> "error", val |-> e]

isString(x) == x.kind = "text"

isPlainObject(x) == x.kind = "meta"

isError(x) == x.kind = "error"

\* mapErrorToObject(error, { stack: true }): the plain projection of an Error;
\* code, status and name get defaults when the error carries none
mapErrorToObject(e) ==
    LET or(f, d) == IF f \in DOMAIN e /\ e[f] # "" THEN e[f] ELSE d
    IN  compact([code    |-> or("code", "500"),
                 status  |-> or("status", "500"),
                 name    |-> or("name", "Error"),
                 message |-> or("message", or("name", "Error")),
                 stack   |-> or("stack", "")])

----------------------------------------------------------------------------
(* @lykmapipo/env *)

\* getBoolean(name, default)
getBoolean(name, default) ==
    IF name \in DOMAIN env THEN env[name] = "true" ELSE default

\* getString(name, default): the value as a string
getString(name, default) ==
    IF name \in DOMAIN env THEN env[name] ELSE default

\* a string in a condition: every string but the empty one is truthy
truthy(value) == value # ""

\* getStrings(name, default): the comma separated value as a list of names
getStrings(name, default) ==
    IF name \in DOMAIN env THEN env[name] ELSE default

Range(s) == {s[i] : i \in DOMAIN s}

----------------------------------------------------------------------------
(* src/es/index.js *)

\* the empty handle (undefined before the first createLogger, null after a dispose)
NoLogger == [obj |-> <<"null", 0>>, ops |-> {}, id |-> -1]

\* createLogger() called without an argument
NoCustom == [obj |-> <<"undefined", 0>>, ops |-> {}, id |-> -1]

\* the eight emitters of the module
Severities ==
    {"error", "warn", "info", "verbose", "debug", "silly", "event", "audit"}

\* injectable backends: the first exposes a write operation per severity, the
\* second is a plain six-level logger without `event` and `audit`
CustomLoggers ==
    {[obj |-> <<"custom", 1>>, ops |-> Severities, id |-> -1],
     [obj |-> <<"custom", 2>>, ops |-> Severities \ {"event", "audit"}, id |-> -1]}

LOG_LEVELS ==
    [error |-> 0, warn |-> 1, info |-> 2, http |-> 3, verbose |-> 4,
     debug |-> 5, silly |-> 6, event |-> 7, audit |-> 9]

DefaultIgnoredFields == <<"password", "secret", "token", "client_secret">>

\* mutant: the flag is not read from the environment
isLoggingEnabledAlways == TRUE

isLoggingEnabled == getBoolean("LOGGER_LOG_ENABLED", TRUE)

\* mutant: the gate does not look for the write operation
canLogAnyLevel(level) == logger # NoLogger /\ isLoggingEnabled

\* mutant: the enabled flag is left out of the gate
canLogIgnoresFlag(level) == logger # NoLogger /\ level \in logger.ops

\* mutant: the level is looked up among the known levels, not on the handle
canLogKnownLevel(level) ==
    /\ logger # NoLogger
    /\ level \in DOMAIN LOG_LEVELS
    /\ isLoggingEnabled

canLog(level) ==
    /\ logger # NoLogger
    /\ level \in logger.ops
    /\ isLoggingEnabled

\* new Date()
Date(t) == <<"Date", t>>

\* mutant: a text does not replace the message the record already has
packParamKeepsMessage(log, param) ==
    LET l1 == IF isString(param) /\ "message" \notin DOMAIN log
              THEN mergeObjects(log, [message |-> param.val]) ELSE log
        l2 == IF isPlainObject(param) THEN mergeObjects(l1, param.val) ELSE l1
    IN  IF isError(param)
        THEN mergeObjects3(l2, [level |-> "error"], mapErrorToObject(param.val))
        ELSE l2

\* mutant: an error does not set the level
packParamErrorKeepsLevel(log, param) ==
    LET l1 == IF isString(param)
              THEN mergeObjects(log, [message |-> param.val]) ELSE log
        l2 == IF isPlainObject(param) THEN mergeObjects(l1, param.val) ELSE l1
    IN  IF isError(param)
        THEN mergeObjects(l2, mapErrorToObject(param.val))
        ELSE l2

\* mutant: an input of no recognised shape is taken for the message
packParamOtherAsMessage(log, param) ==
    LET l1 == IF isString(param)
              THEN mergeObjects(log, [message |-> param.val]) ELSE log
        l2 == IF isPlainObject(param) THEN mergeObjects(l1, param.val) ELSE l1
        l3 == IF isError(param)
              THEN mergeObjects3(l2, [level |-> "error"], mapErrorToObject(param.val))
              ELSE l2
    IN  IF isString(param) \/ isPlainObject(param) \/ isError(param) THEN l3
        ELSE mergeObjects(l3, [message |-> "[object Object]"])

\* the body of the forEach of normalizeLog: one input merged into the record
packParam(log, param) ==
    LET l1 == IF isString(param)
              THEN mergeObjects(log, [message |-> param.val]) ELSE log
        l2 == IF isPlainObject(param) THEN mergeObjects(l1, param.val) ELSE l1
    IN  IF isError(param)
        THEN mergeObjects3(l2, [level |-> "error"], mapErrorToObject(param.val))
        ELSE l2

RECURSIVE packParams(_, _)
packParams(log, params) ==
    IF params = <<>> THEN log
    ELSE packParams(packParam(log, Head(params)), Tail(params))

\* mutant: the list is not read from the environment
ignoredFieldsDefault == Range(DefaultIgnoredFields)

ignoredFields == Range(getStrings("LOGGER_LOG_IGNORE", DefaultIgnoredFields))

\* mutant: the ignored fields are removed before the inputs are merged
normalizeLogOmitsFirst(params) ==
    LET log == omit([level |-> "info", timestamp |-> Date(now)], ignoredFields)
    IN  mergeObjects(EmptyObject, packParams(log, params))

\* mutant: the record starts empty instead of { level: 'info', timestamp }
normalizeLogNoDefaults(params) ==
    mergeObjects(EmptyObject, omit(packParams(EmptyObject, params), ignoredFields))

normalizeLog(params) ==
    LET log == packParams([level |-> "info", timestamp |-> Date(now)], params)
    IN  mergeObjects(EmptyObject, omit(log, ignoredFields))

\* mutant: the minimum level defaults to 'silly'
createWinstonLoggerSilly ==
    LET LOGGER_LOG_LEVEL   == getString("LOGGER_LOG_LEVEL", "silly")
        LOGGER_USE_CONSOLE == getString("LOGGER_USE_CONSOLE", "true")
        LOGGER_USE_FILE    == getString("LOGGER_USE_FILE", "true")
        LOGGER_LOG_PATH    == getString("LOGGER_LOG_PATH", "./logs/app-%DATE%.log")
        t1 == IF truthy(LOGGER_USE_CONSOLE) THEN <<"Console">> ELSE <<>>
        t2 == IF truthy(LOGGER_USE_FILE) /\ truthy(LOGGER_LOG_PATH)
              THEN Append(t1, "DailyRotateFile") ELSE t1
    IN  [obj |-> <<"winston", built + 1>>, ops |-> DOMAIN LOG_LEVELS, id |-> -1,
         level |-> LOGGER_LOG_LEVEL, transports |-> t2,
         filename |-> LOGGER_LOG_PATH]

\* the backend the factory builds: a fresh winston logger with one write
\* operation per level of LOG_LEVELS, the minimum level and the transports
\* the environment asks for
createWinstonLogger ==
    LET LOGGER_LOG_LEVEL   == getString("LOGGER_LOG_LEVEL", "audit")
        LOGGER_USE_CONSOLE == getString("LOGGER_USE_CONSOLE", "true")
        LOGGER_USE_FILE    == getString("LOGGER_USE_FILE", "true")
        LOGGER_LOG_PATH    == getString("LOGGER_LOG_PATH", "./logs/app-%DATE%.log")
        t1 == IF truthy(LOGGER_USE_CONSOLE) THEN <<"Console">> ELSE <<>>
        t2 == IF truthy(LOGGER_USE_FILE) /\ truthy(LOGGER_LOG_PATH)
              THEN Append(t1, "DailyRotateFile") ELSE t1
    IN  [obj |-> <<"winston", built + 1>>, ops |-> DOMAIN LOG_LEVELS, id |-> -1,
         level |-> LOGGER_LOG_LEVEL, transports |-> t2,
         filename |-> LOGGER_LOG_PATH]

\* mutant: `stack` is put on the allow-list
fillExceptWithStack ==
    {"level", "message", "timestamp", "correlation", "event", "label", "tags",
     "stack"}

\* the fields format.metadata leaves at the top level (fillExcept)
fillExcept ==
    {"level", "message", "timestamp", "correlation", "event", "label", "tags"}

\* What logger[level](record) of the winston backend does to the record it is
\* handed.  A record that carries a message is used as the info object itself:
\* its level is set to the operation's level and the format pipeline
\* (timestamp, metadata, json) then works on that same object: a missing
\* timestamp is filled in and every field outside fillExcept moves into
\* `metadata`.  A record without a message is wrapped ({ message: record })
\* and stays as it was.
winstonLog(level, record) ==
    IF "message" \notin DOMAIN record THEN record
    ELSE LET levelled == Assign(record, [level |-> level])
             stamped  == IF "timestamp" \in DOMAIN levelled THEN levelled
                         ELSE Assign(levelled, [timestamp |-> <<"ISO", now>>])
         IN  Assign(Restrict(stamped, fillExcept),
                    [metadata |-> omit(stamped, fillExcept)])

\* logger[level](record): the record as the backend leaves it.  An injected
\* backend only receives the record.
backendLog(lg, level, record) ==
    IF lg.obj[1] = "winston" THEN winstonLog(level, record) ELSE record

\* the transports of the backend that write the record: a winston transport
\* writes a record whose level ranks no higher than the logger's minimum
\* level; the transports of an injected backend are its own affair
delivered(lg, level) ==
    IF lg.obj[1] = "winston" /\ LOG_LEVELS[lg.level] >= LOG_LEVELS[level]
    THEN lg.transports ELSE <<>>

\* mutant: the existing handle is not reused
createLoggerAlways(customLogger) ==
    [(IF customLogger # NoCustom THEN customLogger ELSE createWinstonLogger)
        EXCEPT !.id = now]

\* a log file path whose directory cannot be created
UnwritablePath == "/dev/null/app-%DATE%.log"

\* new DailyRotateFile({ filename: LOGGER_LOG_PATH }) throws: the factory
\* fails when the file transport is asked for on a path it cannot open
constructionFails ==
    /\ truthy(getString("LOGGER_USE_FILE", "true"))
    /\ getString("LOGGER_LOG_PATH", "./logs/app-%DATE%.log") = UnwritablePath

\* mutant: the handle is assigned before the transports are built
createLoggerKeepsPartial(customLogger) ==
    IF logger = NoLogger
    THEN IF customLogger = NoCustom /\ constructionFails
         THEN [createWinstonLogger EXCEPT !.transports = <<>>]
         ELSE [(IF customLogger # NoCustom THEN customLogger
                ELSE createWinstonLogger) EXCEPT !.id = now]
    ELSE logger

\* mutant: an injected backend replaces the handle in place
createLoggerCustomWins(customLogger) ==
    IF customLogger # NoCustom THEN [customLogger EXCEPT !.id = now]
    ELSE IF logger # NoLogger THEN logger
    ELSE IF constructionFails THEN logger
    ELSE [createWinstonLogger EXCEPT !.id = now]

\* the handle after createLogger(customLogger); when the factory throws, the
\* assignment is not reached and the handle stays as it was
\* mutant: no backend is made while logging is off
createLoggerIfEnabled(customLogger) ==
    IF logger = NoLogger
    THEN IF (customLogger = NoCustom /\ constructionFails) \/ ~isLoggingEnabled
         THEN logger
         ELSE [(IF customLogger # NoCustom THEN customLogger
                ELSE createWinstonLogger) EXCEPT !.id = now]
    ELSE logger

createLogger(customLogger) ==
    IF logger = NoLogger
    THEN IF customLogger = NoCustom /\ constructionFails THEN logger
         ELSE [(IF customLogger # NoCustom THEN customLogger
                ELSE createWinstonLogger) EXCEPT !.id = now]
    ELSE logger

\* whether createLogger(customLogger) invokes the factory
buildsLogger(customLogger) == logger = NoLogger /\ customLogger = NoCustom

\* whether createLogger(customLogger) throws
throws(customLogger) == buildsLogger(customLogger) /\ constructionFails

\* what a caller gets instead of a result when the call throws
Thrown == [thrown |-> "Error"]

Idle == [op |-> "idle"]

NoHistory ==
    [first |-> NoLogger, prev |-> NoLogger, emitted |-> FALSE,
     calls |-> 0, made |-> 0, mark |-> 0]

\* the history after a call that obtains the logger: one more invocation of
\* createWinstonLogger if the call reaches it, one more backend made if the
\* invocation returns
obtained(h, customLogger) ==
    [h EXCEPT !.calls = IF buildsLogger(customLogger) THEN @ + 1 ELSE @,
              !.made = IF buildsLogger(customLogger) /\ ~constructionFails
                       THEN @ + 1 ELSE @]

----------------------------------------------------------------------------
(* The operations.  A call is one atomic step that leaves in `last` what    *)
(* the caller handed in, what the call saw and what it returns; Return      *)
(* hands control back to the caller before the next call starts.            *)

\* the exported createLogger(customLogger)
CreateLogger(customLogger) ==
    /\ last = Idle
    /\ buildsLogger(customLogger) => built < MaxBuilt
    /\ logger' = createLogger(customLogger)
    /\ built' = IF buildsLogger(customLogger) THEN built + 1 ELSE built
    /\ last' = [op |-> "createLogger", custom |-> customLogger,
                before |-> logger, built |-> built, writes |-> writes,
                ret |-> IF throws(customLogger) THEN Thrown ELSE logger']
    /\ hist' = obtained(IF hist.first = NoLogger
                         THEN [hist EXCEPT !.first = logger'] ELSE hist,
                         customLogger)
    /\ UNCHANGED <<env, now, writes>>

\* mutant: the handle is returned but not cleared
disposeLoggerKeeps ==
    /\ last = Idle
    /\ logger' = logger
    /\ last' = [op |-> "disposeLogger", before |-> logger, built |-> built,
                writes |-> writes, ret |-> logger']
    /\ hist' = [first |-> NoLogger,
                prev |-> IF logger # NoLogger THEN logger ELSE hist.prev,
                emitted |-> FALSE,
                calls |-> 0, made |-> 0, mark |-> Len(writes)]
    /\ UNCHANGED <<env, now, built, writes>>

disposeLogger ==
    /\ last = Idle
    /\ logger' = NoLogger
    /\ last' = [op |-> "disposeLogger", before |-> logger, built |-> built,
                writes |-> writes, ret |-> logger']
    /\ hist' = [first |-> NoLogger,
                prev |-> IF logger # NoLogger THEN logger ELSE hist.prev,
                emitted |-> FALSE,
                calls |-> 0, made |-> 0, mark |-> Len(writes)]
    /\ UNCHANGED <<env, now, built, writes>>

\* mutant: normalizeLog obtains the logger first, as the emitters do
NormalizeLogAcquires(params) ==
    /\ last = Idle
    /\ buildsLogger(NoCustom) => built < MaxBuilt
    /\ logger' = createLogger(NoCustom)
    /\ built' = IF buildsLogger(NoCustom) THEN built + 1 ELSE built
    /\ last' = [op |-> "normalizeLog", params |-> params, before |-> logger,
                built |-> built, writes |-> writes, ret |-> normalizeLog(params)]
    /\ hist' = obtained(hist, NoCustom)
    /\ UNCHANGED <<env, now, writes>>

\* the exported normalizeLog(...params)
NormalizeLog(params) ==
    /\ last = Idle
    /\ last' = [op |-> "normalizeLog", params |-> params, before |-> logger,
                built |-> built, writes |-> writes, ret |-> normalizeLog(params)]
    /\ UNCHANGED <<logger, env, now, built, writes, hist>>

\* the exported isLoggingEnabled()
IsLoggingEnabled ==
    /\ last = Idle
    /\ last' = [op |-> "isLoggingEnabled", before |-> logger, built |-> built,
                writes |-> writes, ret |-> isLoggingEnabled]
    /\ UNCHANGED <<logger, env, now, built, writes, hist>>

\* mutant: canLog obtains the logger first, as the emitters do
CanLogAcquires(level) ==
    /\ last = Idle
    /\ buildsLogger(NoCustom) => built < MaxBuilt
    /\ logger' = createLogger(NoCustom)
    /\ built' = IF buildsLogger(NoCustom) THEN built + 1 ELSE built
    /\ hist' = obtained(hist, NoCustom)
    /\ last' = [op |-> "canLog", level |-> level, before |-> logger,
                built |-> built, writes |-> writes,
                ret |-> /\ createLogger(NoCustom) # NoLogger
                        /\ level \in createLogger(NoCustom).ops
                        /\ isLoggingEnabled]
    /\ UNCHANGED <<env, now, writes>>

\* the exported canLog(level); ret is whether the value returned is truthy
\* (undefined or null without a handle, a boolean otherwise)
CanLog(level) ==
    /\ last = Idle
    /\ last' = [op |-> "canLog", level |-> level, before |-> logger,
                built |-> built, writes |-> writes, ret |-> canLog(level)]
    /\ UNCHANGED <<logger, env, now, built, writes, hist>>

\* mutant: every emitter calls logger.info
logCallInfo(lg, level, normalized) ==
    [obj |-> lg.obj, op |-> "info", rec |-> normalized,
     out |-> backendLog(lg, "info", normalized), to |-> delivered(lg, "info")]

\* logger[level](normalized): what the backend `lg` receives, on which
\* operation, the record as the backend leaves it (the caller holds the
\* same object) and the transports that write it
logCall(lg, level, normalized) ==
    [obj |-> lg.obj, op |-> level, rec |-> normalized,
     out |-> backendLog(lg, level, normalized), to |-> delivered(lg, level)]

\* the body the eight emitters share, for the emitter of `level`, run on behalf
\* of the exported call `op` that was handed `input`
emitFor(op, input, level, params) ==
    /\ last = Idle
    /\ buildsLogger(NoCustom) => built < MaxBuilt
    /\ logger' = createLogger(NoCustom)
    /\ built' = IF buildsLogger(NoCustom) THEN built + 1 ELSE built
    /\ hist' = obtained([hist EXCEPT !.emitted = TRUE], NoCustom)
    /\ UNCHANGED <<env, now>>
    /\ LET defaults   == [level |-> level]
           normalized == mergeObjects(defaults, normalizeLog(params))
           can        == canLog(level)'
           call       == logCall(logger', level, normalized)
       IN  IF throws(NoCustom)
           THEN /\ writes' = writes
                /\ last' = [op |-> op, params |-> input, before |-> logger,
                            built |-> built, writes |-> writes, ret |-> Thrown]
           ELSE /\ writes' = IF can THEN Append(writes, call) ELSE writes
                /\ last' = [op |-> op, params |-> input, before |-> logger,
                            built |-> built, writes |-> writes,
                            ret |-> IF can THEN call.out ELSE normalized]

\* an emitter called by the application
emit(level, params) == emitFor(level, params, level, params)

error(params) == emit("error", params)

warn(params) == emit("warn", params)

info(params) == emit("info", params)

verbose(params) == emit("verbose", params)

debug(params) == emit("debug", params)

silly(params) == emit("silly", params)

event(params) == emit("event", params)

audit(params) == emit("audit", params)

\* String.prototype.trim: white space is removed from both ends
IsSpace(c) == c \in {" ", "\t", "\n", "\r"}

RECURSIVE trimStart(_)
trimStart(s) ==
    IF s # "" /\ IsSpace(SubSeq(s, 1, 1))
    THEN trimStart(SubSeq(s, 2, Len(s))) ELSE s

RECURSIVE trimEnd(_)
trimEnd(s) ==
    IF s # "" /\ IsSpace(SubSeq(s, Len(s), Len(s)))
    THEN trimEnd(SubSeq(s, 1, Len(s) - 1)) ELSE s

\* mutant: only the end of the string is trimmed
trimOnlyEnd(s) == trimEnd(s)

trim(s) == trimEnd(trimStart(s))

\* mutant: the line is handed on as it came
writeUntrimmed(message) ==
    emitFor("write", message, "info", <<Meta([message |-> message])>>)

\* stream.write(message): info({ message: message.trim() })
write(message) ==
    emitFor("write", message, "info", <<Meta([message |-> trim(message)])>>)

\* control is back with the caller
Return ==
    /\ last # Idle
    /\ last' = Idle
    /\ UNCHANGED <<logger, env, now, built, writes, hist>>

\* process.env[name] = value
SetEnv(name, value) ==
    /\ last = Idle
    /\ env' = Assign(env, [n \in {name} |-> value])
    /\ UNCHANGED <<logger, now, built, writes, last, hist>>

\* delete process.env[name]
DeleteEnv(name) ==
    /\ last = Idle
    /\ name \in DOMAIN env
    /\ env' = omit(env, {name})
    /\ UNCHANGED <<logger, now, built, writes, last, hist>>

\* a millisecond passes
Tick ==
    /\ last = Idle
    /\ now < MaxClock
    /\ now' = now + 1
    /\ UNCHANGED <<logger, env, built, writes, last, hist>>

----------------------------------------------------------------------------
(* Inputs *)

\* a number, a boolean, null, undefined, an array
Other == [kind |-> "other", val |-> EmptyObject]

InvalidArguments ==
    Error([message |-> "Invalid Arguments", name |-> "Error",
           stack |-> "Error: Invalid Arguments at <anonymous>"])

NotFound ==
    Error([message |-> "Not Found", name |-> "HttpError", code |-> "404",
           status |-> "404", stack |-> "HttpError: Not Found at <anonymous>"])

\* the inputs normalizeLog is tried on
Inputs ==
    <<Text("Hello"), Text("Failed"), Text(""),
      Meta([message |-> "Hello"]),
      Meta([pid |-> "123"]),
      Meta([message |-> "Hello", password |-> "1234"]),
      Meta([level |-> "debug", token |-> "abc"]),
      InvalidArguments, NotFound, Other>>

RECURSIVE ParamLists(_)
ParamLists(n) ==
    IF n = 0 THEN {<<>>}
    ELSE LET shorter == ParamLists(n - 1)
         IN  shorter \cup {Append(ps, Inputs[i]) : ps \in shorter, i \in DOMAIN Inputs}

\* the values LOGGER_LOG_IGNORE is given
IgnoreLists ==
    {<<"pid">>, <<"level", "password">>, <<"timestamp", "message", "stack">>}

EnvNorm == {EmptyObject} \cup {[LOGGER_LOG_IGNORE |-> l] : l \in IgnoreLists}

----------------------------------------------------------------------------
(* normalizeLog on its own: every list of up to MaxParams inputs, under     *)
(* every ignored-field list, at every clock reading                         *)

InitNorm ==
    /\ logger = NoLogger
    /\ env \in EnvNorm
    /\ now = 0
    /\ built = 0
    /\ writes = <<>>
    /\ last = Idle
    /\ hist = NoHistory

NextNorm ==
    \/ \E ps \in ParamLists(MaxParams) : NormalizeLog(ps)
    \/ \E l \in IgnoreLists : SetEnv("LOGGER_LOG_IGNORE", l)
    \/ DeleteEnv("LOGGER_LOG_IGNORE")
    \/ Tick
    \/ Return

SpecNorm == InitNorm /\ [][NextNorm]_vars

----------------------------------------------------------------------------
(* The emitters: every emitter on each kind of input, with the enabled flag *)
(* switched between calls, on the factory's backend or an injected one      *)

EmitParams ==
    {<<>>,
     <<Text("Hello")>>,
     <<InvalidArguments>>,
     <<Meta([level |-> "debug", message |-> "Hello", password |-> "1234"])>>,
     <<Text("Failed"), NotFound, Meta([pid |-> "123"])>>}

EnvEmit ==
    {EmptyObject, [LOGGER_LOG_IGNORE |-> <<"level", "password">>],
     [LOGGER_LOG_IGNORE |-> <<"timestamp", "stack">>],
     [LOGGER_LOG_IGNORE |-> <<"message">>]}

InitEmit ==
    /\ logger = NoLogger
    /\ env \in EnvEmit
    /\ now = 0
    /\ built = 0
    /\ writes = <<>>
    /\ last = Idle
    /\ hist = NoHistory

NextEmit ==
    \/ \E ps \in EmitParams : Len(writes) < MaxWrites /\ error(ps)
    \/ \E ps \in EmitParams : Len(writes) < MaxWrites /\ warn(ps)
    \/ \E ps \in EmitParams : Len(writes) < MaxWrites /\ info(ps)
    \/ \E ps \in EmitParams : Len(writes) < MaxWrites /\ verbose(ps)
    \/ \E ps \in EmitParams : Len(writes) < MaxWrites /\ debug(ps)
    \/ \E ps \in EmitParams : Len(writes) < MaxWrites /\ silly(ps)
    \/ \E ps \in EmitParams : Len(writes) < MaxWrites /\ event(ps)
    \/ \E ps \in EmitParams : Len(writes) < MaxWrites /\ audit(ps)
    \/ \E c \in CustomLoggers \cup {NoCustom} : CreateLogger(c)
    \/ \E v \in {"true", "false"} : SetEnv("LOGGER_LOG_ENABLED", v)
    \/ DeleteEnv("LOGGER_LOG_ENABLED")
    \/ Return

SpecEmit == InitEmit /\ [][NextEmit]_vars

----------------------------------------------------------------------------
(* The backends' log: sequences of emitter calls, with the enabled flag     *)
(* switched between calls                                                   *)

InitLog ==
    /\ logger = NoLogger
    /\ env = EmptyObject
    /\ now = 0
    /\ built = 0
    /\ writes = <<>>
    /\ last = Idle
    /\ hist = NoHistory

NextLog ==
    \/ Len(writes) < MaxLog /\ error(<<Text("Hello")>>)
    \/ Len(writes) < MaxLog /\ warn(<<Text("Hello")>>)
    \/ Len(writes) < MaxLog /\ info(<<Text("Hello")>>)
    \/ Len(writes) < MaxLog /\ verbose(<<Text("Hello")>>)
    \/ Len(writes) < MaxLog /\ debug(<<Text("Hello")>>)
    \/ Len(writes) < MaxLog /\ silly(<<Text("Hello")>>)
    \/ Len(writes) < MaxLog /\ event(<<Text("Hello")>>)
    \/ Len(writes) < MaxLog /\ audit(<<Text("Hello")>>)
    \/ \E c \in CustomLoggers \cup {NoCustom} : CreateLogger(c)
    \/ \E v \in {"true", "false"} : SetEnv("LOGGER_LOG_ENABLED", v)
    \/ DeleteEnv("LOGGER_LOG_ENABLED")
    \/ Return

SpecLog == InitLog /\ [][NextLog]_vars

----------------------------------------------------------------------------
(* The handle: createLogger, disposeLogger and the emitters in any order,   *)
(* as the clock advances, with logging switched off                         *)

InitHandle ==
    /\ logger = NoLogger
    /\ env = [LOGGER_LOG_ENABLED |-> "false"]
    /\ now = 0
    /\ built = 0
    /\ writes = <<>>
    /\ last = Idle
    /\ hist = NoHistory

NextHandle ==
    \/ \E c \in CustomLoggers \cup {NoCustom} : CreateLogger(c)
    \/ disposeLogger
    \/ error(<<Text("Hello")>>)
    \/ warn(<<Text("Hello")>>)
    \/ info(<<Text("Hello")>>)
    \/ verbose(<<Text("Hello")>>)
    \/ debug(<<Text("Hello")>>)
    \/ silly(<<Text("Hello")>>)
    \/ event(<<Text("Hello")>>)
    \/ audit(<<Text("Hello")>>)
    \/ Tick
    \/ Return

SpecHandle == InitHandle /\ [][NextHandle]_vars

----------------------------------------------------------------------------
(* The stream adapter: lines written to the stream and the same messages    *)
(* handed to info directly, with the enabled flag switched between calls    *)

\* the lines a request logger writes
Lines == {"GET / 200\n", " GET / 200 \n", "GET / 200", "\n"}

\* the messages handed to info directly
StreamMessages == {"GET / 200", ""}

EnvStream ==
    {EmptyObject, [LOGGER_LOG_IGNORE |-> <<"timestamp">>],
     [LOGGER_LOG_IGNORE |-> <<"message", "level">>]}

InitStream ==
    /\ logger = NoLogger
    /\ env \in EnvStream
    /\ now = 0
    /\ built = 0
    /\ writes = <<>>
    /\ last = Idle
    /\ hist = NoHistory

NextStream ==
    \/ \E line \in Lines : Len(writes) < MaxLog /\ write(line)
    \/ \E m \in StreamMessages :
            Len(writes) < MaxLog /\ info(<<Meta([message |-> m])>>)
    \/ \E c \in CustomLoggers \cup {NoCustom} : CreateLogger(c)
    \/ \E v \in {"true", "false"} : SetEnv("LOGGER_LOG_ENABLED", v)
    \/ DeleteEnv("LOGGER_LOG_ENABLED")
    \/ Tick
    \/ Return

SpecStream == InitStream /\ [][NextStream]_vars

----------------------------------------------------------------------------
(* The minimum level: the emitters on a backend built under each value of   *)
(* LOGGER_LOG_LEVEL, with the enabled flag switched between calls           *)

\* the values LOGGER_LOG_LEVEL is given
LevelValues == {"error", "info", "silly"}

InitLevel ==
    /\ logger = NoLogger
    /\ env \in {EmptyObject} \cup {[LOGGER_LOG_LEVEL |-> l] : l \in LevelValues}
    /\ now = 0
    /\ built = 0
    /\ writes = <<>>
    /\ last = Idle
    /\ hist = NoHistory

NextLevel ==
    \/ Len(writes) < MaxWrites /\ error(<<Text("Hello")>>)
    \/ Len(writes) < MaxWrites /\ warn(<<Text("Hello")>>)
    \/ Len(writes) < MaxWrites /\ info(<<Text("Hello")>>)
    \/ Len(writes) < MaxWrites /\ verbose(<<Text("Hello")>>)
    \/ Len(writes) < MaxWrites /\ debug(<<Text("Hello")>>)
    \/ Len(writes) < MaxWrites /\ silly(<<Text("Hello")>>)
    \/ Len(writes) < MaxWrites /\ event(<<Text("Hello")>>)
    \/ Len(writes) < MaxWrites /\ audit(<<Text("Hello")>>)
    \/ \E c \in CustomLoggers \cup {NoCustom} : CreateLogger(c)
    \/ \E v \in {"true", "false"} : SetEnv("LOGGER_LOG_ENABLED", v)
    \/ DeleteEnv("LOGGER_LOG_ENABLED")
    \/ Return

SpecLevel == InitLevel /\ [][NextLevel]_vars

----------------------------------------------------------------------------
(* The factory: backends built, disposed of and built again while the       *)
(* transport flags and the log path change                                  *)

EnvFactory ==
    {EmptyObject, [LOGGER_USE_CONSOLE |-> "false"], [LOGGER_USE_FILE |-> "false"],
     [LOGGER_LOG_PATH |-> "./app.log"]}

InitFactory ==
    /\ logger = NoLogger
    /\ env \in EnvFactory
    /\ now = 0
    /\ built = 0
    /\ writes = <<>>
    /\ last = Idle
    /\ hist = NoHistory

NextFactory ==
    \/ \E c \in CustomLoggers \cup {NoCustom} : CreateLogger(c)
    \/ disposeLogger
    \/ \E n \in {"LOGGER_USE_CONSOLE", "LOGGER_USE_FILE"}, v \in {"true", "false"} :
            SetEnv(n, v)
    \/ SetEnv("LOGGER_LOG_PATH", "./app.log")
    \/ \E n \in {"LOGGER_USE_CONSOLE", "LOGGER_USE_FILE", "LOGGER_LOG_PATH"} :
            DeleteEnv(n)
    \/ Return

SpecFactory == InitFactory /\ [][NextFactory]_vars

----------------------------------------------------------------------------
(* Failing construction: calls made while the log path cannot be opened,    *)
(* and after the path has been put right                                    *)

InitFail ==
    /\ logger = NoLogger
    /\ env \in {EmptyObject, [LOGGER_LOG_PATH |-> UnwritablePath]}
    /\ now = 0
    /\ built = 0
    /\ writes = <<>>
    /\ last = Idle
    /\ hist = NoHistory

NextFail ==
    \/ \E c \in CustomLoggers \cup {NoCustom} : CreateLogger(c)
    \/ disposeLogger
    \/ Len(writes) < MaxWrites /\ error(<<InvalidArguments>>)
    \/ Len(writes) < MaxWrites /\ info(<<Text("Hello")>>)
    \/ \E line \in Lines : Len(writes) < MaxWrites /\ write(line)
    \/ SetEnv("LOGGER_LOG_PATH", UnwritablePath)
    \/ DeleteEnv("LOGGER_LOG_PATH")
    \/ Return

SpecFail == InitFail /\ [][NextFail]_vars

----------------------------------------------------------------------------
(* The ignored fields: LOGGER_LOG_IGNORE changed between calls of           *)
(* normalizeLog, the emitters and the stream, on a handle that stays        *)

IgnoreParams ==
    {<<Meta([message |-> "x", pid |-> "1"])>>,
     <<Meta([message |-> "Hello", password |-> "1234"])>>,
     <<InvalidArguments>>}

InitIgnore ==
    /\ logger = NoLogger
    /\ env = EmptyObject
    /\ now = 0
    /\ built = 0
    /\ writes = <<>>
    /\ last = Idle
    /\ hist = NoHistory

NextIgnore ==
    \/ \E ps \in IgnoreParams : NormalizeLog(ps)
    \/ \E ps \in IgnoreParams : Len(writes) < MaxLog /\ info(ps)
    \/ \E ps \in IgnoreParams : Len(writes) < MaxLog /\ error(ps)
    \/ Len(writes) < MaxLog /\ write("GET / 200\n")
    \/ \E c \in CustomLoggers \cup {NoCustom} : CreateLogger(c)
    \/ \E l \in IgnoreLists : SetEnv("LOGGER_LOG_IGNORE", l)
    \/ SetEnv("LOGGER_LOG_ENABLED", "false")
    \/ \E n \in {"LOGGER_LOG_IGNORE", "LOGGER_LOG_ENABLED"} : DeleteEnv(n)
    \/ Return

SpecIgnore == InitIgnore /\ [][NextIgnore]_vars

----------------------------------------------------------------------------
(* The queries: isLoggingEnabled, canLog and normalizeLog called before the *)
(* handle exists, while it exists and after it has been disposed of         *)

InitQuery ==
    /\ logger = NoLogger
    /\ env = EmptyObject
    /\ now = 0
    /\ built = 0
    /\ writes = <<>>
    /\ last = Idle
    /\ hist = NoHistory

NextQuery ==
    \/ \E level \in Severities : CanLog(level)
    \/ IsLoggingEnabled
    \/ \E ps \in {<<>>, <<Text("Hello")>>} : NormalizeLog(ps)
    \/ \E c \in CustomLoggers \cup {NoCustom} : CreateLogger(c)
    \/ disposeLogger
    \/ Len(writes) < MaxWrites /\ info(<<Text("Hello")>>)
    \/ \E v \in {"true", "false"} : SetEnv("LOGGER_LOG_ENABLED", v)
    \/ DeleteEnv("LOGGER_LOG_ENABLED")
    \/ Return

SpecQuery == InitQuery /\ [][NextQuery]_vars

----------------------------------------------------------------------------
(* The single handle: createLogger, the emitters, the stream and            *)
(* disposeLogger in any order, with logging on or off and with a log path   *)
(* that can or cannot be opened                                             *)

InitSingle ==
    /\ logger = NoLogger
    /\ env = EmptyObject
    /\ now = 0
    /\ built = 0
    /\ writes = <<>>
    /\ last = Idle
    /\ hist = NoHistory

NextSingle ==
    \/ \E c \in CustomLoggers \cup {NoCustom} : CreateLogger(c)
    \/ disposeLogger
    \/ Len(writes) < MaxLog /\ info(<<Text("Hello")>>)
    \/ Len(writes) < MaxLog /\ write("GET / 200\n")
    \/ SetEnv("LOGGER_LOG_ENABLED", "false")
    \/ DeleteEnv("LOGGER_LOG_ENABLED")
    \/ SetEnv("LOGGER_LOG_PATH", UnwritablePath)
    \/ DeleteEnv("LOGGER_LOG_PATH")
    \/ Return

SpecSingle == InitSingle /\ [][NextSingle]_vars

----------------------------------------------------------------------------
(* Reconfiguration: the level, the file flag and the path changed while a   *)
(* handle exists and between a dispose and the next construction            *)

InitReconf ==
    /\ logger = NoLogger
    /\ env = EmptyObject
    /\ now = 0
    /\ built = 0
    /\ writes = <<>>
    /\ last = Idle
    /\ hist = NoHistory

NextReconf ==
    \/ \E c \in CustomLoggers \cup {NoCustom} : CreateLogger(c)
    \/ disposeLogger
    \/ Len(writes) < MaxWrites /\ info(<<Text("Hello")>>)
    \/ \E l \in {"error", "silly"} : SetEnv("LOGGER_LOG_LEVEL", l)
    \/ SetEnv("LOGGER_USE_FILE", "false")
    \/ SetEnv("LOGGER_LOG_PATH", "./app.log")
    \/ \E n \in {"LOGGER_LOG_LEVEL", "LOGGER_USE_FILE", "LOGGER_LOG_PATH"} :
            DeleteEnv(n)
    \/ Return

SpecReconf == InitReconf /\ [][NextReconf]_vars

----------------------------------------------------------------------------
(* Redaction: normalizeLog on metadata with a nested object, with names     *)
(* close to the ignored ones and with an empty value, under several lists   *)

RedactObjects ==
    {[message |-> "Hello", password |-> "1234",
      user |-> [name |-> "Jo", password |-> "abcd"]],
     [passwords |-> "1234", pass |-> "12", token |-> "abc"],
     [message |-> "Hello", note |-> "", pid |-> "1"]}

RedactLists == {<<"password">>, <<"name", "pid">>, <<"user", "pass">>}

InitRedact ==
    /\ logger = NoLogger
    /\ env = EmptyObject
    /\ now = 0
    /\ built = 0
    /\ writes = <<>>
    /\ last = Idle
    /\ hist = NoHistory

NextRedact ==
    \/ \E o \in RedactObjects : NormalizeLog(<<Meta(o)>>)
    \/ \E o \in RedactObjects : Len(writes) < MaxWrites /\ info(<<Meta(o)>>)
    \/ \E l \in RedactLists : SetEnv("LOGGER_LOG_IGNORE", l)
    \/ DeleteEnv("LOGGER_LOG_IGNORE")
    \/ Tick
    \/ Return

SpecRedact == InitRedact /\ [][NextRedact]_vars

----------------------------------------------------------------------------
(* Properties.  `last` is the call that has just been made: while it is not *)
(* Idle the environment and the clock are those the call read.              *)

IsEmit == last.op \in Severities

FlagOff ==
    "LOGGER_LOG_ENABLED" \in DOMAIN env /\ env["LOGGER_LOG_ENABLED"] = "false"

OnWinston == logger.obj[1] = "winston"

\* the record an emitter builds before it turns to the backend
Built(level, params) == mergeObjects([level |-> level], normalizeLog(params))

HasError(params) == \E i \in DOMAIN params : isError(params[i])

ErrorFields == {"stack", "code", "status", "name"}

AllowList ==
    {"level", "message", "timestamp", "correlation", "event", "label", "tags"}

\* C1: the record an emitter returns has the emitter's severity as its level,
\* whatever the inputs.
C1_EmitterLevel ==
    IsEmit => "level" \in DOMAIN last.ret /\ last.ret.level = last.op

\* C2: an emitter called while the enabled flag is false returns the record it
\* built and no backend receives a call; with the flag not false, the same
\* handle receives one call as soon as the next emitter is called.
C2_DisabledNoWrite ==
    IsEmit =>
        /\ FlagOff =>
            /\ writes = last.writes
            /\ last.ret = Built(last.op, last.params)
        /\ ~FlagOff /\ last.op \in logger.ops =>
            Len(writes) = Len(last.writes) + 1
        /\ last.before # NoLogger => logger = last.before

\* C2 witness: a handle that has received a write, the flag switched off, and
\* an emitter called on that handle.
C2_Witness ==
    /\ IsEmit
    /\ FlagOff
    /\ last.before # NoLogger
    /\ Len(last.writes) = 1
    /\ last.writes[1].obj = logger.obj

\* C3: an emitter call that passes the gate appends exactly one call to the
\* backends' log, on the handle, on the operation of the emitter's severity,
\* with the record the emitter returns; any other call leaves the log as it was.
C3_WritesFollowCalls ==
    last # Idle =>
        IF IsEmit /\ ~FlagOff /\ last.op \in logger.ops
        THEN /\ Len(writes) = Len(last.writes) + 1
             /\ SubSeq(writes, 1, Len(last.writes)) = last.writes
             /\ writes[Len(writes)].obj = logger.obj
             /\ writes[Len(writes)].op = last.op
             /\ writes[Len(writes)].rec = Built(last.op, last.params)
             /\ writes[Len(writes)].out = last.ret
        ELSE writes = last.writes

\* C3 witness: a second write, after a call that the gate stopped.
C3_Witness ==
    /\ IsEmit
    /\ Len(writes) = 2
    /\ Len(last.writes) = 1
    /\ writes[1].op # writes[2].op
    /\ "LOGGER_LOG_ENABLED" \in DOMAIN env

\* C4 as claimed: an emitter returns the record it built, whether or not the
\* backend was called.
C4_SameRecordEitherWay ==
    IsEmit => last.ret = Built(last.op, last.params)

\* C4 amended: the enabled flag changes the returned record only through what
\* the backend does to the record it is handed.  With the flag off, on an
\* injected backend, or for a record without a message, the emitter returns
\* the record it built; a record with a message written by the factory's
\* backend comes back with the emitter's severity as level, a timestamp, and
\* every field outside the allow-list moved into `metadata`.
C4_RecordUpToBackend ==
    IsEmit =>
        LET b == Built(last.op, last.params)
            r == last.ret
        IN  IF ~FlagOff /\ OnWinston /\ "message" \in DOMAIN b
            THEN /\ DOMAIN r =
                        ((DOMAIN b) \cap AllowList)
                            \cup {"level", "timestamp", "metadata"}
                 /\ r.level = last.op
                 /\ r.message = b.message
                 /\ r.timestamp = IF "timestamp" \in DOMAIN b THEN b.timestamp
                                  ELSE <<"ISO", now>>
                 /\ r.metadata = omit(b, AllowList)
            ELSE r = b

\* C4 witness: a call with the flag off on the factory's backend, for inputs
\* with a message.
C4_Witness ==
    /\ IsEmit
    /\ FlagOff
    /\ OnWinston
    /\ "message" \in DOMAIN last.ret
    /\ HasError(last.params)

\* C5 as claimed: error(err) returns level, message and timestamp at the top
\* level and the error's stack, code, status and name inside `metadata`.
C5_ErrorInMetadata ==
    last.op = "error" /\ HasError(last.params) =>
        /\ {"level", "message", "timestamp", "metadata"} \subseteq DOMAIN last.ret
        /\ ErrorFields \subseteq DOMAIN last.ret.metadata

\* C5 amended: when the call is written by the factory's backend (logging
\* enabled) and `message` is not an ignored field, error(err) returns level
\* "error", message and timestamp at the top level and those of the error's
\* stack, code, status and name that are not ignored inside `metadata`;
\* otherwise they stay at the top level and there is no `metadata`.
C5_ErrorInMetadataWhenWritten ==
    last.op = "error" /\ HasError(last.params) =>
        IF ~FlagOff /\ OnWinston /\ "message" \notin ignoredFields
        THEN /\ {"level", "message", "timestamp", "metadata"}
                    \subseteq DOMAIN last.ret
             /\ last.ret.level = "error"
             /\ ErrorFields \ ignoredFields \subseteq DOMAIN last.ret.metadata
             /\ ErrorFields \cap DOMAIN last.ret = {}
        ELSE /\ ErrorFields \ ignoredFields \subseteq DOMAIN last.ret
             /\ "metadata" \notin DOMAIN last.ret

\* C5 witness: error(new Error(...)) written by the factory's backend.
C5_Witness ==
    /\ last.op = "error"
    /\ last.params = <<InvalidArguments>>
    /\ OnWinston
    /\ Len(writes) = Len(last.writes) + 1
    /\ "metadata" \in DOMAIN last.ret
    /\ "stack" \in DOMAIN last.ret.metadata

\* the fields an input gives to the record
Supplies(param) ==
    IF isString(param) THEN {"message"}
    ELSE IF isPlainObject(param) THEN DOMAIN param.val
    ELSE IF isError(param) THEN DOMAIN mapErrorToObject(param.val)
    ELSE {}

\* C6: the record normalizeLog returns has no top-level field named in the
\* ignored-field list.
C6_NoIgnoredField ==
    last.op = "normalizeLog" => (DOMAIN last.ret) \cap ignoredFields = {}

\* C6 witness: an ignored field given by two inputs, the second an error.
C6_Witness ==
    /\ last.op = "normalizeLog"
    /\ Len(last.params) = 2
    /\ isError(last.params[2])
    /\ Supplies(last.params[1]) \cap Supplies(last.params[2]) \cap ignoredFields # {}

\* C7 as claimed: the record normalizeLog returns has a level and a timestamp
\* under every ignored-field list.
C7_LevelAndTimestamp ==
    last.op = "normalizeLog" => {"level", "timestamp"} \subseteq DOMAIN last.ret

\* C7 amended: the record normalizeLog returns has a level unless `level` is
\* an ignored field, and a timestamp unless `timestamp` is an ignored field.
C7_LevelAndTimestampUnlessIgnored ==
    last.op = "normalizeLog" =>
        \A f \in {"level", "timestamp"} :
            f \in DOMAIN last.ret <=> f \notin ignoredFields

\* C7 witness: a list of ignored fields without level and timestamp, and
\* inputs that give a level of their own.
C7_Witness ==
    /\ last.op = "normalizeLog"
    /\ "LOGGER_LOG_IGNORE" \in DOMAIN env
    /\ ignoredFields \cap {"level", "timestamp"} = {}
    /\ Len(last.params) = 2
    /\ "level" \in Supplies(last.params[1])
    /\ last.ret.level = "debug"
    /\ last.ret.timestamp = Date(now)

\* C8: every createLogger call made since the latest dispose returns the
\* handle, with the id, that the first of them returned, and that handle is
\* the one in place.
C8_SameHandle ==
    last.op = "createLogger" =>
        /\ last.ret = hist.first
        /\ logger = hist.first
        /\ last.before # NoLogger => last.ret = last.before

\* C8 witness: createLogger with an injected backend, after the handle was
\* created, emitters have run on it and the clock has moved on.
C8_Witness ==
    /\ last.op = "createLogger"
    /\ last.custom # NoCustom
    /\ last.before # NoLogger
    /\ hist.emitted
    /\ now > last.ret.id

\* C9: the handle the first createLogger after a dispose returns has an id
\* different from the id of the handle that dispose cleared.
C9_FreshId ==
    last.op = "createLogger" /\ last.before = NoLogger /\ hist.prev # NoLogger
        => last.ret.id # hist.prev.id

\* C10: disposeLogger leaves no handle and returns the empty value; a
\* createLogger or emitter call that finds no handle invokes the factory, which
\* builds a backend that is not the one cleared, or installs the injected one.
C10_DisposeThenRebuild ==
    /\ last.op = "disposeLogger" => logger = NoLogger /\ last.ret = NoLogger
    /\ (IsEmit \/ last.op = "createLogger") /\ last.before = NoLogger =>
        IF last.op = "createLogger" /\ last.custom # NoCustom
        THEN logger.obj = last.custom.obj /\ built = last.built
        ELSE /\ built = last.built + 1
             /\ logger.obj = <<"winston", built>>
             /\ logger.obj # hist.prev.obj

\* C10 witness: an emitter called right after a dispose that cleared a handle
\* the factory had built.
C10_Witness ==
    /\ IsEmit
    /\ last.before = NoLogger
    /\ hist.prev.obj[1] = "winston"
    /\ logger # NoLogger

AllText(params) == \A i \in DOMAIN params : isString(params[i])

\* the texts that are not the empty string, in the order given
NonEmptyTexts(params) ==
    SelectSeq(params, LAMBDA p : isString(p) /\ p.val # "")

\* C11 as claimed: with only texts as inputs, normalizeLog returns level
\* "info", a timestamp and, if a text was given, the last text as message, and
\* no other field.
C11_TextOnly ==
    last.op = "normalizeLog" /\ AllText(last.params) =>
        /\ DOMAIN last.ret =
                {"level", "timestamp"}
                    \cup (IF last.params # <<>> THEN {"message"} ELSE {})
        /\ last.ret.level = "info"
        /\ last.ret.timestamp = Date(now)
        /\ last.params # <<>> =>
                last.ret.message = last.params[Len(last.params)].val

\* C11 amended: with only texts as inputs, normalizeLog returns, of level
\* "info", the timestamp and, if a text other than the empty string was given,
\* the last such text as message, the fields that are not ignored fields, and
\* no other field.
C11_TextOnlyNonEmptyNotIgnored ==
    last.op = "normalizeLog" /\ AllText(last.params) =>
        LET texts == NonEmptyTexts(last.params)
            base  == [level |-> "info", timestamp |-> Date(now)]
            full  == IF texts = <<>> THEN base
                     ELSE [level |-> "info", timestamp |-> Date(now),
                           message |-> texts[Len(texts)].val]
        IN  last.ret = Restrict(full, (DOMAIN full) \ ignoredFields)

\* C11 witness: two texts, the second the empty string, under the default
\* ignored fields.
C11_Witness ==
    /\ last.op = "normalizeLog"
    /\ "LOGGER_LOG_IGNORE" \notin DOMAIN env
    /\ last.params = <<Text("Hello"), Text("")>>
    /\ last.ret.message = "Hello"

Max(S) == CHOOSE x \in S : \A y \in S : y <= x

\* the fields of an input as the caller wrote them
Raw(param) ==
    IF isString(param) THEN [message |-> param.val]
    ELSE IF isPlainObject(param) THEN param.val
    ELSE IF isError(param)
         THEN Assign([level |-> "error"], mapErrorToObject(param.val))
    ELSE EmptyObject

\* the fields of an input whose value is not empty
Gives(param) == Restrict(Raw(param), {f \in DOMAIN Raw(param) : Raw(param)[f] # ""})

\* C12 as claimed: the fields of the record normalizeLog returns are level,
\* timestamp and the fields of all the inputs, each with the value of the last
\* input that has it.
C12_LeftToRightMerge ==
    last.op = "normalizeLog" =>
        LET ps       == last.params
            from(f)  == {i \in DOMAIN ps : f \in DOMAIN Raw(ps[i])}
            defaults == [level |-> "info", timestamp |-> Date(now)]
        IN  /\ DOMAIN last.ret =
                    {"level", "timestamp"}
                        \cup UNION {DOMAIN Raw(ps[i]) : i \in DOMAIN ps}
            /\ \A f \in DOMAIN last.ret :
                    last.ret[f] = IF from(f) = {} THEN defaults[f]
                                  ELSE Raw(ps[Max(from(f))])[f]

\* C12 amended: the fields of the record normalizeLog returns are level,
\* timestamp and the fields the inputs give a non-empty value, without the
\* ignored fields, each with the value of the last input that gives it one.
C12_MergeOfGivenNotIgnored ==
    last.op = "normalizeLog" =>
        LET ps       == last.params
            from(f)  == {i \in DOMAIN ps : f \in DOMAIN Gives(ps[i])}
            defaults == [level |-> "info", timestamp |-> Date(now)]
        IN  /\ DOMAIN last.ret =
                    ({"level", "timestamp"}
                        \cup UNION {DOMAIN Gives(ps[i]) : i \in DOMAIN ps})
                    \ ignoredFields
            /\ \A f \in DOMAIN last.ret :
                    last.ret[f] = IF from(f) = {} THEN defaults[f]
                                  ELSE Gives(ps[Max(from(f))])[f]

\* C12 witness: normalizeLog('Failed', error) with the error's message.
C12_Witness ==
    /\ last.op = "normalizeLog"
    /\ last.params = <<Text("Failed"), InvalidArguments>>
    /\ "message" \in DOMAIN last.ret
    /\ last.ret.message = "Invalid Arguments"
    /\ last.ret.level = "error"

\* C13 as claimed: when an input is an error, the record normalizeLog returns
\* has level "error" and the stack and name of an error of the list, wherever
\* the error stands among the inputs.
C13_ErrorLevel ==
    last.op = "normalizeLog" /\ HasError(last.params) =>
        /\ {"level", "stack", "name"} \subseteq DOMAIN last.ret
        /\ last.ret.level = "error"
        /\ \E i \in DOMAIN last.params :
                /\ isError(last.params[i])
                /\ last.ret.stack = last.params[i].val.stack
                /\ last.ret.name = last.params[i].val.name

\* C13 amended: when an input is an error, each of level, stack and name is
\* absent from the record if it is an ignored field, and otherwise has the
\* value the last error gives it ("error" for level) unless an input after
\* that error gives the field a value of its own, which then stands.
C13_ErrorLevelUnlessOverridden ==
    last.op = "normalizeLog" /\ HasError(last.params) =>
        LET ps       == last.params
            e        == Max({i \in DOMAIN ps : isError(ps[i])})
            later(f) == {i \in DOMAIN ps : i > e /\ f \in DOMAIN Gives(ps[i])}
        IN  \A f \in {"level", "stack", "name"} :
                IF f \in ignoredFields THEN f \notin DOMAIN last.ret
                ELSE /\ f \in DOMAIN last.ret
                     /\ last.ret[f] = IF later(f) = {} THEN Gives(ps[e])[f]
                                       ELSE Gives(ps[Max(later(f))])[f]

\* C13 witness: an error followed by a metadata object that leaves the level
\* alone.
C13_Witness ==
    /\ last.op = "normalizeLog"
    /\ Len(last.params) = 2
    /\ isError(last.params[1])
    /\ isPlainObject(last.params[2])
    /\ "pid" \in DOMAIN last.ret
    /\ last.ret.level = "error"
    /\ last.ret.stack = last.params[1].val.stack

AllSpace(s) == \A k \in 1..Len(s) : IsSpace(SubSeq(s, k, k))

\* the part of the line between its leading and its trailing white space
TrimmedOf(line) ==
    CHOOSE t \in {SubSeq(line, i, j) : i \in 1..(Len(line) + 1), j \in 0..Len(line)} :
        \E i \in 1..(Len(line) + 1), j \in 0..Len(line) :
            /\ t = SubSeq(line, i, j)
            /\ AllSpace(SubSeq(line, 1, i - 1))
            /\ AllSpace(SubSeq(line, j + 1, Len(line)))
            /\ i <= j => ~IsSpace(SubSeq(line, i, i)) /\ ~IsSpace(SubSeq(line, j, j))

\* the record info builds for the single input { message: t }
StreamBuilt(t) ==
    LET full == IF t = "" THEN [level |-> "info", timestamp |-> Date(now)]
                ELSE [level |-> "info", timestamp |-> Date(now), message |-> t]
    IN  Restrict(full, (DOMAIN full) \ (ignoredFields \ {"level"}))

\* what a call of info with the single input { message: t } returns and does
InfoOutcome(t) ==
    LET b == StreamBuilt(t)
    IN  /\ IF FlagOff THEN writes = last.writes
           ELSE /\ Len(writes) = Len(last.writes) + 1
                /\ SubSeq(writes, 1, Len(last.writes)) = last.writes
                /\ writes[Len(writes)].obj = logger.obj
                /\ writes[Len(writes)].op = "info"
                /\ writes[Len(writes)].rec = b
                /\ writes[Len(writes)].out = last.ret
        /\ last.ret =
                IF ~FlagOff /\ OnWinston /\ "message" \in DOMAIN b
                THEN [level |-> "info", message |-> t,
                      timestamp |-> IF "timestamp" \in DOMAIN b THEN b.timestamp
                                    ELSE <<"ISO", now>>,
                      metadata |-> EmptyObject]
                ELSE b

Written == IsEmit /\ Len(writes) = Len(last.writes) + 1

\* the factory's backend, under its minimum level, lets severity S through
Permits(S) == LOG_LEVELS[logger.level] >= LOG_LEVELS[S]

\* C15 as claimed: an emitter calls the backend's write operation only when
\* logging is enabled, the backend has the operation and the backend's minimum
\* level permits the severity.
C15_WriteOnlyIfLevelPermits ==
    Written =>
        /\ ~FlagOff
        /\ last.op \in logger.ops
        /\ OnWinston => Permits(last.op)

\* C15 amended: an emitter calls the backend's write operation, once, exactly
\* when logging is enabled and the backend has the operation; the minimum
\* level is not looked at: a record it does not permit is handed to the
\* factory's backend all the same, and no transport of the backend writes it.
C15_WriteIffEnabledAndExposed ==
    IsEmit =>
        /\ Written <=> (~FlagOff /\ last.op \in logger.ops)
        /\ ~Written => writes = last.writes
        /\ Written /\ OnWinston /\ ~Permits(last.op) =>
                /\ writes[Len(writes)].obj = logger.obj
                /\ writes[Len(writes)].op = last.op
                /\ writes[Len(writes)].to = <<>>

\* C15 witness: debug called on a backend built with minimum level 'error'.
C15_Witness ==
    /\ Written
    /\ OnWinston
    /\ logger.level = "error"
    /\ last.op = "debug"
    /\ writes[Len(writes)].to = <<>>

FlagTrue(name) == name \notin DOMAIN env \/ env[name] = "true"

\* C17: the backend the factory builds has a console transport exactly when
\* the use-console flag is true, and a rotating-file transport exactly when the
\* use-file flag is true and a path is configured.
C17_TransportsFollowFlags ==
    last.op = "createLogger" /\ last.before = NoLogger /\ last.custom = NoCustom
    /\ last.ret # Thrown =>
        /\ "Console" \in Range(logger.transports)
                <=> FlagTrue("LOGGER_USE_CONSOLE")
        /\ "DailyRotateFile" \in Range(logger.transports)
                <=> FlagTrue("LOGGER_USE_FILE")

\* C18: createLogger(custom) called while there is no handle installs that
\* backend, with its own operations, without invoking the factory;
\* called while there is a handle it returns that handle and leaves it in
\* place; and every call the backends have received went to the handle in
\* place, so a backend that was turned down has received none.
C18_InjectedBackend ==
    /\ last.op = "createLogger" /\ last.custom # NoCustom =>
            /\ built = last.built
            /\ last.ret = logger
            /\ IF last.before = NoLogger
               THEN /\ logger.obj = last.custom.obj
                    /\ logger.ops = last.custom.ops
               ELSE logger = last.before
    /\ \A i \in DOMAIN writes : writes[i].obj = logger.obj

\* C18 witness: a second backend handed to createLogger after the first one
\* injected has received the emitters' calls.
C18_Witness ==
    /\ last.op = "createLogger"
    /\ last.custom.obj = <<"custom", 2>>
    /\ last.before.obj = <<"custom", 1>>
    /\ Len(writes) = 2
    /\ writes[2].obj = <<"custom", 1>>

\* the inputs that are a text, a plain object or an error, in the order given
Recognised(params) ==
    SelectSeq(params, LAMBDA p : isString(p) \/ isPlainObject(p) \/ isError(p))

\* C19: an input that is no text, plain object or error gives the record
\* nothing, wherever it stands: normalizeLog returns a record, the one it
\* returns for the inputs without it.
C19_OtherInputsIgnored ==
    last.op = "normalizeLog" =>
        /\ last.ret # Thrown
        /\ last.ret = normalizeLog(Recognised(last.params))

\* C19 witness: such an input between nothing and an error.
C19_Witness ==
    /\ last.op = "normalizeLog"
    /\ last.params = <<Other, NotFound>>
    /\ last.ret.level = "error"
    /\ last.ret.code = "404"

\* the calls that acquire the handle
Acquires == last # Idle /\ last.op \in Severities \cup {"write", "createLogger"}

\* the call in `last` had to invoke the factory
MustBuild ==
    /\ Acquires
    /\ last.before = NoLogger
    /\ last.op = "createLogger" => last.custom = NoCustom

\* C20: a call that has to build the backend while construction fails throws
\* to its caller: no record is returned, no backend receives a call and the
\* handle stays empty; every call that finds the handle empty and is given no
\* backend invokes the factory again, and gets a backend once construction
\* succeeds.
C20_FailedConstruction ==
    /\ Acquires /\ last.ret = Thrown =>
            /\ MustBuild
            /\ logger = NoLogger
            /\ writes = last.writes
    /\ MustBuild =>
            /\ built = last.built + 1
            /\ IF constructionFails THEN last.ret = Thrown
               ELSE /\ last.ret # Thrown
                    /\ logger.obj = <<"winston", built>>

\* C20 witness: a line written to the stream fails to build the backend,
\* after an earlier call failed the same way.
C20_Witness ==
    /\ last # Idle
    /\ last.op = "write"
    /\ last.ret = Thrown
    /\ last.built = 1
    /\ logger = NoLogger

\* the call in `last` reached a backend
Handed == last # Idle /\ Len(writes) = Len(last.writes) + 1

\* the fields the factory's backend puts on a record it writes
BackendFields == {"level", "timestamp", "metadata"}

\* the fields of a record, those nested in `metadata` included
FieldsOf(record) ==
    (DOMAIN record)
        \cup (IF "metadata" \in DOMAIN record THEN DOMAIN record.metadata ELSE {})

\* the names on the list as the environment has it at the call
ListInForce ==
    IF "LOGGER_LOG_IGNORE" \in DOMAIN env
    THEN {env["LOGGER_LOG_IGNORE"][i] : i \in DOMAIN env["LOGGER_LOG_IGNORE"]}
    ELSE {"password", "secret", "token", "client_secret"}

\* C21 as claimed: the record normalizeLog or an emitter returns has no field
\* named in LOGGER_LOG_IGNORE as it stands at the call, on the handle in place.
C21_IgnoreListReadEachCall ==
    last.op = "normalizeLog" \/ IsEmit =>
        (DOMAIN last.ret) \cap ListInForce = {}

\* C21 amended: the list is read at every call: the record normalizeLog
\* returns has no field named in LOGGER_LOG_IGNORE as it stands at the call,
\* and the record an emitter returns has none either, at the top level or
\* inside `metadata`, but for `level`, which the emitter sets itself, and for
\* `timestamp` and `metadata`, which the factory's backend puts on a record it
\* writes; the handle stays as it was.
C21_IgnoreListReadEachCallButLevel ==
    /\ last.op = "normalizeLog" =>
            /\ (DOMAIN last.ret) \cap ListInForce = {}
            /\ logger = last.before
    /\ IsEmit =>
            /\ FieldsOf(last.ret) \cap ListInForce \subseteq
                    IF Handed /\ OnWinston THEN BackendFields ELSE {"level"}
            /\ last.before # NoLogger => logger = last.before

\* C21 witness: `pid` put on the list after a record with a pid was written,
\* and the next emitter call, on the same handle, gives a record without it.
C21_Witness ==
    /\ IsEmit
    /\ last.before # NoLogger
    /\ "pid" \in ListInForce
    /\ last.params = <<Meta([message |-> "x", pid |-> "1"])>>
    /\ Len(last.writes) = 1
    /\ "pid" \in DOMAIN last.writes[1].rec
    /\ last.writes[1].obj = logger.obj
    /\ "pid" \notin FieldsOf(last.ret)

\* an emitter or the stream adapter has been called and has returned a record
Emitted == last # Idle /\ last.op \in Severities \cup {"write"} /\ last.ret # Thrown

\* C28 as claimed: no record handed to a backend and no record an emitter or
\* the stream adapter returns has a top-level field named in LOGGER_LOG_IGNORE
\* as it stands at the call.
C28_NoIgnoredFieldAnywhere ==
    Emitted =>
        /\ (DOMAIN last.ret) \cap ListInForce = {}
        /\ Handed => (DOMAIN writes[Len(writes)].rec) \cap ListInForce = {}

\* C28 amended: of the fields named in LOGGER_LOG_IGNORE as it stands at the
\* call, a record handed to a backend has none but `level`, which the emitter
\* sets to its own severity when the list names it, and a record an emitter
\* or the stream adapter returns has none but `level` and, when the factory's
\* backend wrote it, the `timestamp` and `metadata` that backend puts on it;
\* no other listed field is in the record, at the top level or in `metadata`.
C28_NoIgnoredFieldButLevel ==
    Emitted =>
        /\ Handed =>
                FieldsOf(writes[Len(writes)].rec) \cap ListInForce \subseteq {"level"}
        /\ FieldsOf(last.ret) \cap ListInForce \subseteq
                IF Handed /\ OnWinston THEN BackendFields ELSE {"level"}
        /\ "level" \in ListInForce /\ ~(Handed /\ OnWinston) =>
                /\ "level" \in DOMAIN last.ret
                /\ last.ret.level = IF last.op = "write" THEN "info" ELSE last.op

\* C28 witness: error(err) written by the factory's backend while the list
\* names `stack` and `timestamp`.
C28_Witness ==
    /\ Emitted
    /\ Handed
    /\ OnWinston
    /\ last.op = "error"
    /\ last.params = <<InvalidArguments>>
    /\ {"stack", "timestamp"} \subseteq ListInForce
    /\ "stack" \notin FieldsOf(last.ret)

C26_QueriesLeaveHandle ==
    last.op \in {"normalizeLog", "isLoggingEnabled", "canLog"} =>
        /\ logger = last.before
        /\ built = last.built
        /\ writes = last.writes

\* C26 witness: normalizeLog called with logging enabled after a dispose,
\* when a backend has already received a call.
C26_Witness ==
    /\ last.op = "normalizeLog"
    /\ last.before = NoLogger
    /\ hist.prev # NoLogger
    /\ Len(writes) = 1
    /\ ~FlagOff

\* C27: when the handle is an injected backend that has no write operation
\* for S, the emitter for S raises nothing, calls no operation of the backend
\* and returns the normalized record.
C27_MissingOperationSkipped ==
    (IsEmit /\ last.before.obj[1] = "custom" /\ last.op \notin last.before.ops) =>
        /\ last.ret # Thrown
        /\ writes = last.writes
        /\ logger = last.before
        /\ last.ret = Built(last.op, last.params)

\* C27 witness: audit called with logging enabled on an injected backend
\* that has neither event nor audit.
C27_Witness ==
    /\ last.op = "audit"
    /\ last.before.obj[1] = "custom"
    /\ "audit" \notin last.before.ops
    /\ "info" \in last.before.ops
    /\ ~FlagOff
    /\ last.ret = Built("audit", <<Text("Hello")>>)

\* the calls of backend operations made since the latest disposeLogger (or
\* since the module was loaded)
SinceReset == {i \in 1..Len(writes) : i > hist.mark}

\* C24 as claimed: between two consecutive disposeLogger calls
\* createWinstonLogger is invoked at most once, and every call of a backend
\* operation in between is made on the one handle obtained in between.
C24_FactoryInvokedOnce ==
    /\ hist.calls <= 1
    /\ \A i \in SinceReset : logger # NoLogger /\ writes[i].obj = logger.obj

\* C24: between two consecutive disposeLogger calls createWinstonLogger
\* returns a backend at most once (an invocation that throws leaves no handle
\* and the next call invokes it again), and every call of a backend operation
\* in between is made on the one handle obtained in between.
C24_FactoryReturnsOnce ==
    /\ hist.made <= 1
    /\ hist.made = 1 => logger # NoLogger /\ logger.obj[1] = "winston"
    /\ \A i \in SinceReset : logger # NoLogger /\ writes[i].obj = logger.obj

\* C24 witness: after a dispose of an earlier handle, one backend built and
\* two calls made on it.
C24_Witness ==
    /\ hist.prev # NoLogger
    /\ hist.made = 1
    /\ logger # NoLogger
    /\ logger.obj # hist.prev.obj
    /\ Len(writes) = hist.mark + 2
    /\ writes[hist.mark + 1].obj = logger.obj
    /\ writes[hist.mark + 2].obj = logger.obj

\* C25: when an emitter or the stream returns there is a handle: if there was
\* none before the call, the call invoked createWinstonLogger exactly once and
\* holds its backend, with logging on or off; if there was one, it is the
\* same handle and nothing was built.
C25_EmitterLeavesHandle ==
    (last.op \in Severities \cup {"write"} /\ last.ret # Thrown) =>
        /\ logger # NoLogger
        /\ last.before = NoLogger =>
                /\ built = last.built + 1
                /\ logger.obj = <<"winston", built>>
        /\ last.before # NoLogger =>
                /\ logger = last.before
                /\ built = last.built

\* C25 witness: the stream called with logging off and no handle yet, and
\* returning with the handle it built.
C25_Witness ==
    /\ last.op = "write"
    /\ last.ret # Thrown
    /\ FlagOff
    /\ last.before = NoLogger
    /\ logger.obj = <<"winston", last.built + 1>>
    /\ writes = last.writes

\* a call that found no handle and returns with a backend of the factory
Constructs ==
    /\ last.op \in Severities \cup {"createLogger"}
    /\ last.before = NoLogger
    /\ last.ret # Thrown
    /\ OnWinston

\* C23: the minimum level, the transport flags and the file path are read
\* when a backend is constructed and at no other time: no call but a dispose
\* changes an existing handle, a write is delivered by the level the handle
\* was built with, and a backend constructed after a dispose has the level,
\* the transports and the path the environment asks for at that moment.
C23_ConfigurationReadAtConstruction ==
    /\ (last # Idle /\ last.op # "disposeLogger" /\ last.before # NoLogger) =>
            logger = last.before
    /\ (Written /\ OnWinston) =>
            writes[Len(writes)].to =
                IF LOG_LEVELS[logger.level] >= LOG_LEVELS[last.op]
                THEN logger.transports ELSE <<>>
    /\ Constructs =>
            /\ logger.level = getString("LOGGER_LOG_LEVEL", "audit")
            /\ logger.filename =
                    getString("LOGGER_LOG_PATH", "./logs/app-%DATE%.log")
            /\ "Console" \in Range(logger.transports)
                    <=> FlagTrue("LOGGER_USE_CONSOLE")
            /\ "DailyRotateFile" \in Range(logger.transports)
                    <=> FlagTrue("LOGGER_USE_FILE")

\* the line without the white space at its end
EndTrimmedOf(line) ==
    CHOOSE t \in {SubSeq(line, 1, j) : j \in 0..Len(line)} :
        \E j \in 0..Len(line) :
            /\ t = SubSeq(line, 1, j)
            /\ AllSpace(SubSeq(line, j + 1, Len(line)))
            /\ j >= 1 => ~IsSpace(SubSeq(line, j, j))

\* the stream has returned a record with a message for the line
StreamMessage(line) ==
    /\ last.op = "write"
    /\ last.params = line
    /\ "message" \in DOMAIN last.ret

\* C29 as claimed: the message the stream forwards is the line without its
\* trailing white space; white space at the start of the line stays.
C29_TrailingOnly ==
    \A line \in Lines :
        StreamMessage(line) => last.ret.message = EndTrimmedOf(line)

\* C29: the message the stream forwards is the line without the white space
\* at both of its ends: the record returned, and the one a backend receives,
\* has that message, or none when nothing is left of the line or `message`
\* is an ignored field.
C29_BothEnds ==
    \A line \in Lines :
        last.op = "write" /\ last.params = line =>
            /\ StreamMessage(line) <=>
                    TrimmedOf(line) # "" /\ "message" \notin ListInForce
            /\ StreamMessage(line) => last.ret.message = TrimmedOf(line)
            /\ (StreamMessage(line) /\ Handed) =>
                    writes[Len(writes)].rec.message = TrimmedOf(line)

\* C29 witness: a line with white space at both ends handed through the
\* stream to a backend, the message being the line without either.
C29_Witness ==
    /\ StreamMessage(" GET / 200 \n")
    /\ Handed
    /\ EndTrimmedOf(" GET / 200 \n") = " GET / 200"
    /\ writes[Len(writes)].rec.message = "GET / 200"
    /\ last.ret.message = "GET / 200"

\* the field k of the metadata o holds a falsy value (an empty string)
Falsy(o, k) == k \notin ObjectFields /\ o[k] = ""

\* normalizeLog has returned for the single metadata input o
Redacted(o) == last.op = "normalizeLog" /\ last.params = <<Meta(o)>>

\* C30 as claimed: normalizeLog removes a field exactly when its top-level
\* name is an ignored name; every other top-level field, with whatever is
\* nested in it, is in the record unchanged.
C30_ExactTopLevelOnly ==
    \A o \in RedactObjects :
        Redacted(o) =>
            \A k \in DOMAIN o :
                IF k \in ListInForce THEN k \notin DOMAIN last.ret
                ELSE k \in DOMAIN last.ret /\ last.ret[k] = o[k]

\* C30: normalizeLog removes a field when its top-level name is an ignored
\* name; every other top-level field with a truthy value, with whatever is
\* nested in it, is in the record unchanged; a top-level field with a falsy
\* value is dropped whatever its name.
C30_ExactTopLevelTruthy ==
    \A o \in RedactObjects :
        Redacted(o) =>
            \A k \in DOMAIN o :
                IF k \in ListInForce \/ Falsy(o, k) THEN k \notin DOMAIN last.ret
                ELSE k \in DOMAIN last.ret /\ last.ret[k] = o[k]

\* C30 witness: `password` is ignored and the metadata has it at the top
\* level and inside `user`: the first is gone, the second is still there.
C30_Witness ==
    /\ last.op = "normalizeLog"
    /\ "password" \in ListInForce
    /\ "password" \in DOMAIN last.params[1].val
    /\ "password" \notin DOMAIN last.ret
    /\ "user" \in DOMAIN last.ret
    /\ last.ret.user = [name |-> "Jo", password |-> "abcd"]

====
